---- MODULE Spec2Model ----
(***************************************************************************)
(* traktarr: one reconciliation run of the `shows` or `movies` command of  *)
(* traktarr.py, from the command line to the summary log line.             *)
(*                                                                         *)
(* shows() and movies() have the same body up to the service they talk to  *)
(* (Sonarr / Radarr) and the tag lookup that only shows() performs, so one *)
(* state machine models both, with `media` telling them apart.             *)
(***************************************************************************)
EXTENDS Integers, Sequences, FiniteSets, TLC

(***************************************************************************)
(* Bounds of the model.                                                    *)
(***************************************************************************)
NumIds == 3
MaxLimit == 2

(***************************************************************************)
(* The candidates the recommendation source can return.  A candidate has a *)
(* catalog identifier (tvdb / tmdb id), a vote count and a genre.  Odd and *)
(* even identifiers give two vote counts, so that ties occur between items *)
(* in either list order.                                                   *)
(***************************************************************************)
Ids == 1..NumIds

VotesOf(i) == IF i % 2 = 0 THEN 50 ELSE 10

GenreOf(i) == IF i = 1 THEN "horror" ELSE "drama"

Candidate(i) == [id |-> i, votes |-> VotesOf(i), genre |-> GenreOf(i)]

\* Every list of distinct candidates (the empty list included).
CandidateLists ==
    { s \in UNION { [1..n -> Ids] : n \in 0..NumIds } :
        \A i, j \in DOMAIN s : i # j => s[i] # s[j] }

ListOf(s) == [k \in DOMAIN s |-> Candidate(s[k])]

\* Python's None against a value: [some |-> FALSE] is None.
None(empty) == [some |-> FALSE, val |-> empty]

Some(v) == [some |-> TRUE, val |-> v]

\* `not x` for a list / set valued x: None and the empty collection are falsy.
FalsySeq(x) == ~x.some \/ Len(x.val) = 0

FalsySet(x) == ~x.some \/ x.val = {}

(***************************************************************************)
(* State.                                                                  *)
(***************************************************************************)
VARIABLES
    media,          \* "shows" | "movies": the subcommand
    list_type,      \* --list-type as typed on the command line
    add_limit,      \* --add-limit
    filters,        \* cfg.filters.<media>: the set of blacklisted genres
    pc,             \* position of the run
    error,          \* the "Aborting due to ..." message logged, "" if none
    profile_id,     \* result of get_profile_id
    profile_tags,   \* result of get_tags (shows only)
    catalog_list,   \* sonarr_series_list / radarr_movie_list (ids)
    trakt_list,     \* trakt_series_list / trakt_movies_list
    processed_list, \* processed_series_list / processed_movies_list
    sorted_list,    \* sorted_series_list / sorted_movies_list
    idx,            \* position of the for loop in sorted_list
    added,          \* added_shows / added_movies
    reported,       \* the count of the "Added %d new ..." log line, -1 before
    calls,          \* collaborator calls, sleeps and logged exceptions so far
    sched_pc,       \* position of run(): "off" when the command is not `run`
    clock,          \* seconds since run() started
    interval,       \* cfg.automatic.<task>.interval, in minutes
    next_run,       \* schedule's next_run of each job, in seconds
    runs,           \* completed runs of each job
    pending,        \* the due jobs run_pending() has still to run
    failures,       \* exceptions raised by scheduled tasks so far
    last_wait       \* what the loop did after the previous run_pending()

run_vars == <<media, list_type, add_limit, filters, pc, error, profile_id,
          profile_tags, catalog_list, trakt_list, processed_list, sorted_list,
          idx, added, reported, calls>>

sched_vars == <<sched_pc, clock, interval, next_run, runs, pending, failures, last_wait>>

vars == <<run_vars, sched_vars>>

\* The jobs of run(), in the order they are registered.
JobOrder == <<"movies", "shows">>

Tasks == {"movies", "shows"}

config == <<media, list_type, add_limit, filters>>

Call(op, id, res) == [op |-> op, id |-> id, res |-> res]

(***************************************************************************)
(* Command line (click).                                                   *)
(***************************************************************************)
ListTypes == {"anticipated", "trending", "boxoffice", "TRENDING", "bogus"}

\* click.Choice of --list-type; click compares case-sensitively.
Choice(m) ==
    IF m = "shows" THEN {"anticipated", "trending", "popular"}
    ELSE {"anticipated", "trending", "popular", "boxoffice"}

ChoiceAcceptsAnything(m, t) == TRUE

ChoiceAccepts(m, t) == t \in Choice(m)

\* str.lower() on the values of ListTypes.
Lower(t) == IF t = "TRENDING" THEN "trending" ELSE t

\* The list types the if/elif chain of the body fetches a list for.
BodyTypes(m) ==
    IF m = "shows" THEN {"anticipated", "trending", "popular"}
    ELSE {"anticipated", "trending", "popular", "boxoffice"}

Init ==
    /\ media \in {"shows", "movies"}
    /\ list_type \in ListTypes
    /\ add_limit \in 0..MaxLimit
    /\ filters \in {{}, {"horror"}}
    /\ pc = "cli"
    /\ error = ""
    /\ profile_id = None(0)
    /\ profile_tags = None({})
    /\ catalog_list = None({})
    /\ trakt_list = None(<<>>)
    /\ processed_list = None(<<>>)
    /\ sorted_list = <<>>
    /\ idx = 0
    /\ added = 0
    /\ reported = -1
    /\ calls = <<>>
    /\ sched_pc = "off"
    /\ clock = 0
    /\ interval = [t \in Tasks |-> 0]
    /\ next_run = [t \in Tasks |-> 0]
    /\ runs = [t \in Tasks |-> 0]
    /\ pending = <<>>
    /\ failures = 0
    /\ last_wait = "start"

\* click parses the options before the command body runs: a --list-type
\* outside the Choice is a usage error and the body is never entered.
ClickParse ==
    /\ pc = "cli"
    /\ pc' = IF ChoiceAccepts(media, list_type) THEN "validate_trakt" ELSE "usage_error"
    /\ UNCHANGED <<config, error, profile_id, profile_tags, catalog_list, trakt_list,
                   processed_list, sorted_list, idx, added, reported, calls>>
    /\ UNCHANGED sched_vars

(***************************************************************************)
(* Preparatory steps of the body.  Each logs "Aborting due to ..." and     *)
(* returns when its check fails.                                           *)
(***************************************************************************)
ResOf(ok) == IF ok THEN "ok" ELSE "fail"

AfterStepNoReturn(failed, next) == next

\* `if <failed>: log.error(...); return  else: <go on>`
AfterStep(failed, next) == IF failed THEN "aborted" ELSE next

ErrorOf(failed, msg) == IF failed THEN msg ELSE error

ValidateTrakt ==
    /\ pc = "validate_trakt"
    /\ \E ok \in BOOLEAN :
        /\ calls' = Append(calls, Call("trakt.validate_api_key", 0, ResOf(ok)))
        /\ pc' = AfterStep(~ok, "validate_arr")
        /\ error' = ErrorOf(~ok, "validate Trakt API Key")
    /\ UNCHANGED <<config, profile_id, profile_tags, catalog_list, trakt_list,
                   processed_list, sorted_list, idx, added, reported>>
    /\ UNCHANGED sched_vars

ValidateArr ==
    /\ pc = "validate_arr"
    /\ \E ok \in BOOLEAN :
        /\ calls' = Append(calls, Call("arr.validate_api_key", 0, ResOf(ok)))
        /\ pc' = AfterStep(~ok, "profile")
        /\ error' = ErrorOf(~ok, "validate URL / API Key")
    /\ UNCHANGED <<config, profile_id, profile_tags, catalog_list, trakt_list,
                   processed_list, sorted_list, idx, added, reported>>
    /\ UNCHANGED sched_vars

ProfileResults == {None(0), Some(0), Some(-1), Some(1)}

\* `not profile_id or not profile_id > 0`
BadProfile(p) == (~p.some \/ p.val = 0) \/ ~(p.val > 0)

GetProfileId ==
    /\ pc = "profile"
    /\ \E p \in ProfileResults :
        /\ profile_id' = p
        /\ calls' = Append(calls, Call("arr.get_profile_id", 0, ResOf(~BadProfile(p))))
        /\ pc' = AfterStep(BadProfile(p), IF media = "shows" THEN "tags" ELSE "catalog")
        /\ error' = ErrorOf(BadProfile(p), "retrieve Profile ID")
    /\ UNCHANGED <<config, profile_tags, catalog_list, trakt_list,
                   processed_list, sorted_list, idx, added, reported>>
    /\ UNCHANGED sched_vars

TagResults == {None({}), Some({}), Some({1})}

\* shows() only: `profile_tags is None` aborts, an empty mapping does not.
GetTags ==
    /\ pc = "tags"
    /\ \E t \in TagResults :
        /\ profile_tags' = t
        /\ calls' = Append(calls, Call("sonarr.get_tags", 0, ResOf(t.some)))
        /\ pc' = AfterStep(~t.some, "catalog")
        /\ error' = ErrorOf(~t.some, "retrieve Tag ID's")
    /\ UNCHANGED <<config, profile_id, catalog_list, trakt_list,
                   processed_list, sorted_list, idx, added, reported>>
    /\ UNCHANGED sched_vars

\* A fetched catalog is empty, or holds a title that is on no candidate list
\* (identifier 0) and any of the candidates.
CatalogResults == {None({}), Some({})} \cup { Some({0} \cup c) : c \in SUBSET Ids }

\* sonarr.get_series() / radarr.get_movies(); `not <list>` aborts.
GetCatalog ==
    /\ pc = "catalog"
    /\ \E c \in CatalogResults :
        /\ catalog_list' = c
        /\ calls' = Append(calls, Call("arr.get_catalog", 0, ResOf(~FalsySet(c))))
        /\ pc' = AfterStep(FalsySet(c), "fetch")
        /\ error' = ErrorOf(FalsySet(c), "retrieve catalog list")
    /\ UNCHANGED <<config, profile_id, profile_tags, trakt_list,
                   processed_list, sorted_list, idx, added, reported>>
    /\ UNCHANGED sched_vars

TraktResults == {None(<<>>)} \cup { Some(ListOf(s)) : s \in CandidateLists }

\* The if/elif chain on list_type.lower(), then `not <list>` aborts.
GetTraktList ==
    /\ pc = "fetch"
    /\ IF Lower(list_type) \in BodyTypes(media)
         THEN \E l \in TraktResults :
                /\ trakt_list' = l
                /\ calls' = Append(calls, Call("trakt.get_list", 0, ResOf(~FalsySeq(l))))
                /\ pc' = AfterStep(FalsySeq(l), "dedup")
                /\ error' = ErrorOf(FalsySeq(l), "retrieve Trakt list")
         ELSE /\ pc' = "aborted"
              /\ error' = "unknown Trakt list type"
              /\ UNCHANGED <<trakt_list, calls>>
    /\ UNCHANGED <<config, profile_id, profile_tags, catalog_list,
                   processed_list, sorted_list, idx, added, reported>>
    /\ UNCHANGED sched_vars

(***************************************************************************)
(* Deduplication and sort.                                                 *)
(***************************************************************************)
\* helpers.sonarr_remove_existing_series / radarr_remove_existing_movies:
\* the candidates whose identifier is not in the catalog, in input order.
remove_existing(catalog, candidates) ==
    Some(SelectSeq(candidates, LAMBDA c : c.id \notin catalog))

RemoveExisting ==
    /\ pc = "dedup"
    /\ processed_list' = remove_existing(catalog_list.val, trakt_list.val)
    /\ pc' = AfterStep(FalsySeq(processed_list'), "sort")
    /\ error' = ErrorOf(FalsySeq(processed_list'), "remove existing")
    /\ UNCHANGED <<config, profile_id, profile_tags, catalog_list, trakt_list,
                   sorted_list, idx, added, reported, calls>>
    /\ UNCHANGED sched_vars

InsertAscending(s, x) ==
    LET before == SelectSeq(s, LAMBDA y : y.votes <= x.votes)
        after  == SelectSeq(s, LAMBDA y : y.votes > x.votes)
    IN  before \o <<x>> \o after

\* Position at which x enters the already sorted s: after every element
\* that does not have fewer votes (descending, stable).
InsertByVotes(s, x) ==
    LET before == SelectSeq(s, LAMBDA y : y.votes >= x.votes)
        after  == SelectSeq(s, LAMBDA y : y.votes < x.votes)
    IN  before \o <<x>> \o after

RECURSIVE SortPrefix(_, _)
SortPrefix(s, n) == IF n = 0 THEN <<>> ELSE InsertByVotes(SortPrefix(s, n - 1), s[n])

\* sorted(<list>, key=votes, reverse=True)
SortedByVotes(s) == SortPrefix(s, Len(s))

SortInputUnfiltered == trakt_list.val

\* The list handed to sorted(): the deduplicated one.
SortInput == processed_list.val

Sort ==
    /\ pc = "sort"
    /\ sorted_list' = SortedByVotes(SortInput)
    /\ idx' = 1
    /\ pc' = "loop"
    /\ UNCHANGED <<config, error, profile_id, profile_tags, catalog_list, trakt_list,
                   processed_list, added, reported, calls>>
    /\ UNCHANGED sched_vars

(***************************************************************************)
(* The apply loop: `for series in sorted_series_list: try: ... except`.    *)
(* One action per outcome of an iteration.                                 *)
(***************************************************************************)
\* helpers.trakt_is_show_blacklisted / trakt_is_movie_blacklisted, genre
\* dimension: the item's genre is one of the excluded genres.
is_blacklisted(item, rules) == item.genre \in rules

PassesBlacklistInverted(item) == is_blacklisted(item, filters)

\* `if not helpers.trakt_is_show_blacklisted(series, cfg.filters.shows):`
PassesBlacklist(item) == ~is_blacklisted(item, filters)

LimitReachedOffByOne(n, limit) == limit # 0 /\ n > limit

LimitReachedIgnoresZero(n, limit) == n >= limit

\* `if add_limit and added_shows >= add_limit: break`
LimitReached(n, limit) == limit # 0 /\ n >= limit

InLoop == pc = "loop" /\ idx <= Len(sorted_list)

CountedAlways(n, ok) == n + 1

CountedNever(n, ok) == n

\* `if sonarr.add_series(...): added_shows += 1  else: log.error(...)`
Counted(n, ok) == IF ok THEN n + 1 ELSE n

\* After the add returned (True or False): the limit check, then either
\* break to the summary line or sleep and take the next item.
AfterAdd(item, ok) ==
    LET n    == Counted(added, ok)
        req  == Call("arr.add", item.id, ResOf(ok))
    IN  /\ added' = n
        /\ IF LimitReached(n, add_limit)
             THEN /\ calls' = Append(calls, req)
                  /\ pc' = "done"
                  /\ reported' = n
                  /\ idx' = idx
             ELSE /\ calls' = calls \o <<req, Call("time.sleep", 0, "ok")>>
                  /\ pc' = pc
                  /\ reported' = reported
                  /\ idx' = idx + 1

ItemSkipWithSleep ==
    /\ InLoop
    /\ ~PassesBlacklist(sorted_list[idx])
    /\ idx' = idx + 1
    /\ calls' = Append(calls, Call("time.sleep", 0, "ok"))
    /\ UNCHANGED <<config, pc, error, profile_id, profile_tags, catalog_list, trakt_list,
                   processed_list, sorted_list, added, reported>>
    /\ UNCHANGED sched_vars

\* The item is blacklisted: the body of the `if` is not entered.
ItemSkip ==
    /\ InLoop
    /\ ~PassesBlacklist(sorted_list[idx])
    /\ idx' = idx + 1
    /\ UNCHANGED <<config, pc, error, profile_id, profile_tags, catalog_list, trakt_list,
                   processed_list, sorted_list, added, reported, calls>>
    /\ UNCHANGED sched_vars

\* add_series / add_movie returned True.
ItemAdded ==
    /\ InLoop
    /\ PassesBlacklist(sorted_list[idx])
    /\ AfterAdd(sorted_list[idx], TRUE)
    /\ UNCHANGED <<config, error, profile_id, profile_tags, catalog_list, trakt_list,
                   processed_list, sorted_list>>
    /\ UNCHANGED sched_vars

\* add_series / add_movie returned False.
ItemFailed ==
    /\ InLoop
    /\ PassesBlacklist(sorted_list[idx])
    /\ AfterAdd(sorted_list[idx], FALSE)
    /\ UNCHANGED <<config, error, profile_id, profile_tags, catalog_list, trakt_list,
                   processed_list, sorted_list>>
    /\ UNCHANGED sched_vars

ExceptionAborts == "aborted"

RetryItem(i) == i

\* After the handler the for statement takes the next item.
NextItem(i) == i + 1

\* `except Exception: log.exception(...)`: the loop goes on.
AfterException == pc

\* An exception inside the try block, either before the add request is
\* issued (formatting the log line, choosing the tags) or raised by the add
\* request itself.  The handler logs it; the rest of the iteration, the
\* limit check and the sleep included, is skipped.
ItemException ==
    /\ InLoop
    /\ PassesBlacklist(sorted_list[idx])
    /\ \E at \in {"before_add", "add"} :
        calls' = IF at = "add"
                   THEN calls \o <<Call("arr.add", sorted_list[idx].id, "raise"),
                                   Call("log.exception", sorted_list[idx].id, "ok")>>
                   ELSE Append(calls, Call("log.exception", sorted_list[idx].id, "ok"))
    /\ idx' = NextItem(idx)
    /\ pc' = AfterException
    /\ UNCHANGED <<config, error, profile_id, profile_tags, catalog_list, trakt_list,
                   processed_list, sorted_list, added, reported>>
    /\ UNCHANGED sched_vars

\* The list is exhausted: log "Added %d new show(s)".
LoopEnd ==
    /\ pc = "loop"
    /\ idx > Len(sorted_list)
    /\ pc' = "done"
    /\ reported' = added
    /\ UNCHANGED <<config, error, profile_id, profile_tags, catalog_list, trakt_list,
                   processed_list, sorted_list, idx, added, calls>>
    /\ UNCHANGED sched_vars

Next ==
    \/ ClickParse
    \/ ValidateTrakt
    \/ ValidateArr
    \/ GetProfileId
    \/ GetTags
    \/ GetCatalog
    \/ GetTraktList
    \/ RemoveExisting
    \/ Sort
    \/ ItemSkip
    \/ ItemAdded
    \/ ItemFailed
    \/ ItemException
    \/ LoopEnd

Spec == Init /\ [][Next]_vars

(***************************************************************************)
(* Automatic mode: run() registers the two jobs with the schedule library  *)
(* and polls it forever.  Time is counted in seconds and passes only in    *)
(* time.sleep; the stub tasks take no time.                                *)
(***************************************************************************)
MaxClock == 3660
MaxFailures == 2

SecondsPerMinute == 60

PollSeconds == 1

\* The intervals the configuration may hold, in minutes.
Intervals == {30, 60}

PeriodInSeconds(t) == interval[t]

\* schedule.every(<interval>).minutes
Period(t) == interval[t] * SecondsPerMinute

\* Job.should_run
ShouldRun(t) == clock >= next_run[t]

\* The runnable jobs of run_pending(), sorted by next_run (stable, so jobs
\* due at the same time run in registration order).
DueJobs ==
    LET due == SelectSeq(JobOrder, ShouldRun)
    IN  IF Len(due) = 2 /\ next_run[due[2]] < next_run[due[1]]
          THEN <<due[2], due[1]>>
          ELSE due

\* The shows/movies commands are not entered in automatic mode.
SchedInit ==
    /\ media = "none"
    /\ list_type = "none"
    /\ add_limit = 0
    /\ filters = {}
    /\ pc = "run"
    /\ error = ""
    /\ profile_id = None(0)
    /\ profile_tags = None({})
    /\ catalog_list = None({})
    /\ trakt_list = None(<<>>)
    /\ processed_list = None(<<>>)
    /\ sorted_list = <<>>
    /\ idx = 0
    /\ added = 0
    /\ reported = -1
    /\ calls = <<>>
    /\ sched_pc = "start"
    /\ clock = 0
    /\ interval \in [Tasks -> Intervals]
    /\ next_run = [t \in Tasks |-> 0]
    /\ runs = [t \in Tasks |-> 0]
    /\ pending = <<>>
    /\ failures = 0
    /\ last_wait = "start"

\* schedule.every(...).minutes.do(...): the first run is one period away.
Register ==
    /\ sched_pc = "start"
    /\ next_run' = [t \in Tasks |-> clock + Period(t)]
    /\ sched_pc' = "poll"
    /\ UNCHANGED <<run_vars, clock, interval, runs, pending, failures, last_wait>>

\* `schedule.run_pending()` is called: the due jobs are collected.
RunPending ==
    /\ sched_pc = "poll"
    /\ pending' = DueJobs
    /\ sched_pc' = "running"
    /\ UNCHANGED <<run_vars, clock, interval, next_run, runs, failures, last_wait>>

\* automatic_movies / automatic_shows: log.info("Running"), nothing else.
\* The job is then rescheduled one period from now.
RunJobOk ==
    /\ sched_pc = "running"
    /\ pending # <<>>
    /\ runs' = [runs EXCEPT ![Head(pending)] = @ + 1]
    /\ next_run' = [next_run EXCEPT ![Head(pending)] = clock + Period(Head(pending))]
    /\ pending' = Tail(pending)
    /\ UNCHANGED <<run_vars, sched_pc, clock, interval, failures, last_wait>>

\* A task raises: the exception leaves run_pending(); the job is not
\* rescheduled and the jobs after it are not run in this call.
RunJobRaise ==
    /\ sched_pc = "running"
    /\ pending # <<>>
    /\ failures < MaxFailures
    /\ failures' = failures + 1
    /\ pending' = <<>>
    /\ sched_pc' = "except"
    /\ UNCHANGED <<run_vars, clock, interval, next_run, runs, last_wait>>

\* run_pending() returned: `else: time.sleep(1)`, then the next round.
Sleep ==
    /\ sched_pc = "running"
    /\ pending = <<>>
    /\ clock < MaxClock
    /\ clock' = clock + PollSeconds
    /\ last_wait' = "sleep"
    /\ sched_pc' = "poll"
    /\ UNCHANGED <<run_vars, interval, next_run, runs, pending, failures>>

TickExceptionExits == "exited"

\* `while True:` after the handler: the next round.
AfterTickException == "poll"

\* `except Exception: log.exception(...)`: no sleep on this path.
LogException ==
    /\ sched_pc = "except"
    /\ sched_pc' = AfterTickException
    /\ last_wait' = "except"
    /\ UNCHANGED <<run_vars, clock, interval, next_run, runs, pending, failures>>

SchedNext ==
    \/ Register
    \/ RunPending
    \/ RunJobOk
    \/ RunJobRaise
    \/ Sleep
    \/ LogException

SchedSpec == SchedInit /\ [][SchedNext]_vars

\* `while True` never leaves the loop: some step of it is always taken.
SchedFair == SchedInit /\ [][SchedNext]_vars /\ WF_vars(SchedNext)

(***************************************************************************)
(* What a run has done so far, read off `calls`.                           *)
(***************************************************************************)
AddCalls == SelectSeq(calls, LAMBDA c : c.op = "arr.add")

OkAdds == SelectSeq(calls, LAMBDA c : c.op = "arr.add" /\ c.res = "ok")

FailedAdds == SelectSeq(calls, LAMBDA c : c.op = "arr.add" /\ c.res # "ok")

LoggedExceptions == SelectSeq(calls, LAMBDA c : c.op = "log.exception")

RaisedAdds == SelectSeq(calls, LAMBDA c : c.op = "arr.add" /\ c.res = "raise")

\* Items whose processing raised before any add request was issued.
RaisedBeforeAdd == Len(LoggedExceptions) - Len(RaisedAdds)

NetworkCalls == SelectSeq(calls, LAMBDA c : c.op \notin {"time.sleep", "log.exception"})

CatalogReads == SelectSeq(calls, LAMBDA c : c.op = "arr.get_catalog")

\* The deduplicated candidates that the blacklist lets through.
Survivors == SelectSeq(sorted_list, LAMBDA c : ~is_blacklisted(c, filters))

\* The items the loop has taken up so far: up to and including the item it
\* broke on, or the whole list when it ran to the end.
TakenUp ==
    SubSeq(sorted_list, 1, IF idx <= Len(sorted_list) /\ pc = "loop" THEN idx - 1
                           ELSE IF idx <= Len(sorted_list) THEN idx
                           ELSE Len(sorted_list))

SurvivorsTakenUp == SelectSeq(TakenUp, LAMBDA c : ~is_blacklisted(c, filters))

PosIn(s, id) == CHOOSE k \in DOMAIN s : s[k].id = id

(***************************************************************************)
(* Claims.                                                                 *)
(***************************************************************************)

\* C1: with add_limit = N > 0 the number of successful additions (add
\* requests that returned success) never exceeds N at any point of a run.
C1_SuccessesWithinLimit ==
    add_limit > 0 => (Len(OkAdds) <= add_limit /\ added <= add_limit)

\* C1 witness: a run that stopped at its limit of 2 with items left over.
C1_Witness ==
    /\ pc = "done"
    /\ add_limit = 2
    /\ Len(OkAdds) = 2
    /\ idx < Len(sorted_list)

C3_ItemFailureNeverAborts ==
    idx >= 1
        => /\ pc \in {"loop", "done"}
           /\ error = ""
           /\ Len(AddCalls) + RaisedBeforeAdd = Len(SurvivorsTakenUp)
           /\ pc = "done"
                => /\ reported = Len(OkAdds)
                   /\ \/ idx = Len(sorted_list) + 1
                      \/ add_limit > 0 /\ Len(OkAdds) = add_limit

\* C3 witness: the first request raises, the second item is healthy, and
\* the run ends with a count of 1.
C3_Witness ==
    /\ pc = "done"
    /\ reported = 1
    /\ Len(AddCalls) = 2
    /\ AddCalls[1].res = "raise"
    /\ AddCalls[2].res = "ok"

\* C4 as stated: when the catalog and the candidate list were fetched and
\* every candidate is already in the catalog, the empty result of the
\* deduplication is not an error: the run is not aborted, issues no
\* addition request and ends with a count of 0.
C4_EmptyDedupIsNotAnError ==
    (processed_list.some /\ Len(processed_list.val) = 0)
        => /\ pc # "aborted"
           /\ error = ""
           /\ Len(AddCalls) = 0
           /\ pc = "done" => reported = 0

\* C5: addition requests are issued in non-increasing order of vote count,
\* and requests for items with equal votes follow the order of the list
\* the recommendation source returned.
C5_RequestsByDescendingVotes ==
    \A i, j \in DOMAIN AddCalls :
        i < j => /\ VotesOf(AddCalls[i].id) >= VotesOf(AddCalls[j].id)
                 /\ VotesOf(AddCalls[i].id) = VotesOf(AddCalls[j].id)
                      => PosIn(trakt_list.val, AddCalls[i].id)
                            < PosIn(trakt_list.val, AddCalls[j].id)

\* C5 witness: three requests, the list returned the highest voted item
\* last, and the two others tie.
C5_Witness ==
    /\ Len(AddCalls) = 3
    /\ trakt_list.val[3].votes > trakt_list.val[1].votes
    /\ trakt_list.val[1].votes = trakt_list.val[2].votes

C7_NoRequestForBlacklisted ==
    \A k \in DOMAIN AddCalls : ~is_blacklisted(Candidate(AddCalls[k].id), filters)

\* C7 witness: a finished run that issued a request and whose sorted list
\* held a blacklisted item.
C7_Witness ==
    /\ pc = "done"
    /\ Len(AddCalls) > 0
    /\ \E k \in DOMAIN sorted_list : is_blacklisted(sorted_list[k], filters)

\* C8: a run invoked with a list type the command does not know makes no
\* call to the recommendation source or to the downstream service.
C8_UnknownListTypeNoNetworkCall ==
    list_type \notin Choice(media)
        => (Len(NetworkCalls) = 0 /\ pc \in {"cli", "usage_error"})

\* C8 witness: `shows --list-type boxoffice` rejected.
C8_Witness ==
    /\ pc = "usage_error"
    /\ media = "shows"
    /\ list_type = "boxoffice"

\* C9: when a preparatory call fails (credential validation, profile id,
\* tags, catalog fetch, candidate list fetch) it is the last call of the
\* run, the run is aborted, and an aborted run has issued no addition
\* request and reported no count.
PrepOps ==
    {"trakt.validate_api_key", "arr.validate_api_key", "arr.get_profile_id",
     "sonarr.get_tags", "arr.get_catalog", "trakt.get_list"}

C9_PreparatoryFailureStopsRun ==
    /\ \A k \in DOMAIN calls :
        (calls[k].op \in PrepOps /\ calls[k].res = "fail")
            => (k = Len(calls) /\ pc = "aborted" /\ error # "")
    /\ pc = "aborted" => (Len(AddCalls) = 0 /\ added = 0 /\ reported = -1)

\* C9 witness: the catalog fetch failed after four successful steps.
C9_Witness ==
    /\ pc = "aborted"
    /\ Len(calls) = 5
    /\ calls[5] = Call("arr.get_catalog", 0, "fail")

\* C10 as stated: between any two consecutive addition requests of a run,
\* whatever the outcome of the earlier one, an add_delay wait occurs.
C10_SleepBetweenRequests ==
    \A i, j \in DOMAIN calls :
        (i < j /\ calls[i].op = "arr.add" /\ calls[j].op = "arr.add")
            => \E k \in DOMAIN calls : i < k /\ k < j /\ calls[k].op = "time.sleep"

\* C11 as stated: no add_delay wait occurs after the last addition attempt
\* of a run, whether the list was exhausted or the limit was reached.
C11_NoWaitAfterFinalItem ==
    (pc = "done" /\ Len(AddCalls) > 0) => calls[Len(calls)].op # "time.sleep"

\* C12 as stated: a catalog that was fetched and is empty does not abort
\* the run at the catalog step; the run goes on to fetch the candidates.
C12_EmptyCatalogIsNotAFailure ==
    (catalog_list.some /\ catalog_list.val = {})
        => (pc # "aborted" /\ error = "")

IdsOf(s) == [k \in DOMAIN s |-> s[k].id]

\* C16 as stated: with add_limit = 0 a run that went through the apply
\* loop issued exactly one addition request for every deduplicated,
\* non-blacklisted candidate, in sorted order, and none for any other item.
C16_OneRequestPerSurvivor ==
    (pc = "done" /\ add_limit = 0) => IdsOf(AddCalls) = IdsOf(Survivors)

\* C16 amended: with add_limit = 0 a run that went through the apply loop
\* has, for every deduplicated, non-blacklisted candidate, either issued
\* exactly one addition request or logged one exception raised before the
\* request was issued, and it issued no request for any other item; when
\* no item raised before its request, the requests are exactly the
\* survivors in sorted order, and the count is the number of successes.
C16_OneRequestPerSurvivorUnlessRaised ==
    (pc = "done" /\ add_limit = 0)
        => /\ \A k \in DOMAIN Survivors :
                LET n == Len(SelectSeq(AddCalls, LAMBDA c : c.id = Survivors[k].id))
                    e == Len(SelectSeq(LoggedExceptions, LAMBDA c : c.id = Survivors[k].id))
                IN  n = 1 \/ (n = 0 /\ e = 1)
           /\ \A k \in DOMAIN AddCalls :
                \E j \in DOMAIN Survivors : Survivors[j].id = AddCalls[k].id
           /\ RaisedBeforeAdd = 0 => IdsOf(AddCalls) = IdsOf(Survivors)
           /\ reported = Len(OkAdds)

\* C16 witness: catalog {0, 1}, candidates [1 (10 votes), 2 (50 votes),
\* 3 (10 votes)], no blacklist rules, both adds succeed: requests for 2
\* then 3 and a count of 2.
C16_Witness ==
    /\ pc = "done"
    /\ add_limit = 0
    /\ filters = {}
    /\ catalog_list.val = {0, 1}
    /\ IdsOf(trakt_list.val) = <<1, 2, 3>>
    /\ IdsOf(AddCalls) = <<2, 3>>
    /\ Len(OkAdds) = 2
    /\ reported = 2

\* C17: at every point of a run the counter equals the number of addition
\* requests so far that returned success (so it starts at 0, grows by one
\* per success and is untouched by a skip, a failed add or an exception),
\* and the count the run reports is the counter's final value.
C17_CounterIsSuccessCount ==
    /\ added = Len(OkAdds)
    /\ pc = "done" => reported = added
    /\ pc # "done" => reported = -1

\* C17 witness: a finished run that skipped a blacklisted item, had one
\* request fail or raise and one succeed, and reported 1.
C17_Witness ==
    /\ pc = "done"
    /\ reported = 1
    /\ Len(FailedAdds) = 1
    /\ Len(Survivors) < Len(sorted_list)

\* C19: no candidate receives two addition requests in one run; a failed
\* or raising request is not retried.
C19_AtMostOneRequestPerItem ==
    \A i, j \in DOMAIN AddCalls : i # j => AddCalls[i].id # AddCalls[j].id

\* C19 witness: a run went on to a second item after the first request
\* raised and after the second failed.
C19_Witness ==
    /\ Len(AddCalls) = 2
    /\ AddCalls[1].res = "raise"
    /\ AddCalls[2].res = "fail"
    /\ pc = "done"

\* C20: a step taken while the loop stands on a blacklisted item changes
\* nothing but the loop position: no collaborator call, no wait, the
\* counter and the reported count unchanged, no stop of the loop.
C20_SkipChangesOnlyThePosition ==
    [][(InLoop /\ is_blacklisted(sorted_list[idx], filters))
         => /\ calls' = calls
            /\ added' = added
            /\ reported' = reported
            /\ pc' = "loop"
            /\ idx' = idx + 1
            /\ sorted_list' = sorted_list]_vars

\* C20 witness: the loop skipped a blacklisted first item of a run with
\* limit 1 and stands on the second item, no request issued so far.
C20_Witness ==
    /\ pc = "loop"
    /\ idx = 2
    /\ add_limit = 1
    /\ is_blacklisted(sorted_list[1], filters)
    /\ Len(sorted_list) = 2
    /\ Len(AddCalls) = 0
    /\ calls[Len(calls)].op = "trakt.get_list"

C14_TickInvokesReconciler ==
    Len(SelectSeq(calls, LAMBDA c : c.op = "trakt.validate_api_key"))
        = runs["shows"] + runs["movies"]

\* C15: each job runs on its own timer started when the loop starts: a job
\* with interval I has completed one run per elapsed period of I minutes
\* (less the run that is due right now), whatever the other job's
\* interval; so it never runs before I minutes, and with show interval 60
\* and movie interval 30 the 31st minute sees one movie run and no show
\* run.
C15_IndependentTimers ==
    sched_pc \in {"poll", "running", "except"}
        => /\ \A t \in Tasks :
                /\ runs[t] > 0 => clock >= interval[t] * 60
                /\ runs[t] = (clock \div (interval[t] * 60))
                               - (IF clock >= next_run[t] THEN 1 ELSE 0)
           /\ (interval["shows"] = 60 /\ interval["movies"] = 30 /\ clock = 31 * 60)
                => (runs["movies"] = 1 /\ runs["shows"] = 0)

\* C15 witness: show interval 60, movie interval 30, 31 minutes elapsed.
C15_Witness ==
    /\ interval["shows"] = 60
    /\ interval["movies"] = 30
    /\ clock = 31 * 60
    /\ runs["movies"] = 1
    /\ runs["shows"] = 0

\* C18 as stated: every call of run_pending() but the first comes after a
\* wait of one polling interval, also when the previous call raised.
C18_WaitBetweenChecks ==
    sched_pc = "running" => last_wait \in {"start", "sleep"}

====
